---- MODULE Spec2Model ----
(***************************************************************************)
(* TrueSight backend (src/backend.js): the POST /analyze pipeline.         *)
(*                                                                         *)
(* A JavaScript string is modelled as the sequence of its UTF-16 code      *)
(* units, each written as a one-character TLA+ string, so that trim,       *)
(* includes, split, the regular expressions and JSON.parse are computed    *)
(* on characters as the code computes them.                                *)
(***************************************************************************)
EXTENDS Integers, Sequences, FiniteSets, TLC

(***************************************************************************)
(* String primitives of the JavaScript runtime used by the code.           *)
(***************************************************************************)

\* White space as String.prototype.trim, \s and JSON see it (the part of it
\* that the modelled alphabet holds).
WhiteSpace == {" ", "\n", "\t", "\r"}

Digits == {"0", "1", "2", "3", "4", "5", "6", "7", "8", "9"}

UpperCase == <<"A", "B", "C", "D", "E", "F", "G", "H", "I", "J", "K", "L", "M",
               "N", "O", "P", "Q", "R", "S", "T", "U", "V", "W", "X", "Y", "Z">>

LowerCase == <<"a", "b", "c", "d", "e", "f", "g", "h", "i", "j", "k", "l", "m",
               "n", "o", "p", "q", "r", "s", "t", "u", "v", "w", "x", "y", "z">>

\* One code unit lowercased.
LowerChar(c) ==
    IF \E i \in 1..26 : UpperCase[i] = c
    THEN LowerCase[CHOOSE i \in 1..26 : UpperCase[i] = c]
    ELSE c

\* String.prototype.toLowerCase
toLowerCase(s) == [i \in 1..Len(s) |-> LowerChar(s[i])]

\* s.substring(n) for 0 <= n
Drop(s, n) == SubSeq(s, n + 1, Len(s))

\* s.startsWith(p)
StartsWith(s, p) == Len(s) >= Len(p) /\ SubSeq(s, 1, Len(p)) = p

\* String.prototype.includes
includes(s, p) == \E i \in 1..(Len(s) - Len(p) + 1) : SubSeq(s, i, i + Len(p) - 1) = p

\* The first position from i on whose code unit is not in the set chars
\* (Len(s) + 1 when all of them are).
SkipChars(s, i, chars) ==
    IF i > Len(s) THEN i
    ELSE CHOOSE j \in i..(Len(s) + 1) :
             /\ j = Len(s) + 1 \/ s[j] \notin chars
             /\ \A k \in i..(j - 1) : s[k] \in chars

\* The last position up to i whose code unit is not in the set chars (0 when
\* all of them are).
SkipCharsBack(s, i, chars) ==
    IF i < 1 THEN i
    ELSE CHOOSE j \in 0..i :
             /\ j = 0 \/ s[j] \notin chars
             /\ \A k \in (j + 1)..i : s[k] \in chars

\* String.prototype.trimStart
TrimStart(s) == Drop(s, SkipChars(s, 1, WhiteSpace) - 1)

\* String.prototype.trimEnd
TrimEnd(s) == SubSeq(s, 1, SkipCharsBack(s, Len(s), WhiteSpace))

\* String.prototype.trim
trim(s) == TrimEnd(TrimStart(s))

\* The k-th smallest element of a set of integers.
Nth(S, k) == CHOOSE i \in S : Cardinality({j \in S : j <= i}) = k

\* s.split(sep) for a separator of one code unit: the pieces between the
\* separators (always at least one piece).
split(s, sep) ==
    LET at  == {i \in 1..Len(s) : s[i] = sep}
        n   == Cardinality(at)
        cut == [k \in 0..(n + 1) |-> IF k = 0 THEN 0
                                     ELSE IF k = n + 1 THEN Len(s) + 1
                                     ELSE Nth(at, k)]
    IN  [k \in 1..(n + 1) |-> SubSeq(s, cut[k - 1] + 1, cut[k] - 1)]

\* xs.slice(0, n)
slice0(xs, n) == SubSeq(xs, 1, IF Len(xs) < n THEN Len(xs) ELSE n)

\* The grave accent (U+0060) and the bullet (U+2022), code units that a TLA+
\* string literal cannot spell, each written as one named unit.
Backtick == "U+0060"

Bullet == "U+2022"

Fence == <<Backtick, Backtick, Backtick>>

\* The first position at which pattern p matches s case-insensitively, 0 when
\* there is none (p in lower case).
IndexOfIgnoreCase(s, p) ==
    LET at == {i \in 1..(Len(s) - Len(p) + 1) : toLowerCase(SubSeq(s, i, i + Len(p) - 1)) = p}
    IN  IF at = {} THEN 0 ELSE CHOOSE i \in at : \A j \in at : i <= j

\* s.replace(/<p>\n?/gi, '') for a pattern p of letters (in lower case) and
\* other code units: the leftmost match removed with the line feed after it,
\* then the same on the rest of the string.
RECURSIVE RemoveAll(_, _)
RemoveAll(s, p) ==
    LET i    == IndexOfIgnoreCase(s, p)
        rest == Drop(s, i + Len(p) - 1)
    IN  IF i = 0 THEN s
        ELSE SubSeq(s, 1, i - 1)
             \o RemoveAll(IF StartsWith(rest, <<"\n">>) THEN Tail(rest) ELSE rest, p)

\* .replace(/```json\n?/gi, '')
StripJsonFences(s) == RemoveAll(s, Fence \o <<"j", "s", "o", "n">>)

\* .replace(/```\n?/g, '')
StripFences(s) == RemoveAll(s, Fence)

\* jsonText.match(/\{[\s\S]*\}/): from the first "{" to the last "}" after it;
\* found = FALSE when the text has no such span.
MatchBraces(s) ==
    LET opens  == {i \in 1..Len(s) : s[i] = "{"}
        first  == CHOOSE i \in opens : \A j \in opens : i <= j
        closes == {i \in 1..Len(s) : s[i] = "}" /\ i > first}
        last   == CHOOSE i \in closes : \A j \in closes : j <= i
    IN  IF opens = {} \/ closes = {}
        THEN [found |-> FALSE, text |-> s]
        ELSE [found |-> TRUE, text |-> SubSeq(s, first, last)]

(***************************************************************************)
(* JSON values and JSON.parse.  A value is a record of one shape:          *)
(*   t : "undefined" | "null" | "boolean" | "number" | "string" |          *)
(*       "array" | "object"                                                *)
(*   b : the boolean;  m, e : the number m / 10^e;  s : the string;        *)
(*   a : the array's elements;  o : the object's members <<[k, v], ...>>.  *)
(***************************************************************************)
JBlank == [t |-> "undefined", b |-> FALSE, m |-> 0, e |-> 0, s |-> <<>>, a |-> <<>>, o |-> <<>>]

JUndefined == JBlank

JNull == [JBlank EXCEPT !.t = "null"]

JBool(x) == [JBlank EXCEPT !.t = "boolean", !.b = x]

JNum(mant, places) == [JBlank EXCEPT !.t = "number", !.m = mant, !.e = places]

JStr(chars) == [JBlank EXCEPT !.t = "string", !.s = chars]

JArr(items) == [JBlank EXCEPT !.t = "array", !.a = items]

JObj(members) == [JBlank EXCEPT !.t = "object", !.o = members]

RECURSIVE Pow10(_)
Pow10(n) == IF n = 0 THEN 1 ELSE 10 * Pow10(n - 1)

DigitVal(c) == CHOOSE d \in 0..9 : <<"0", "1", "2", "3", "4", "5", "6", "7", "8", "9">>[d + 1] = c

\* The characters s[i..j-1], all digits, read as a decimal numeral (the
\* numerals of the modelled replies have at most nine digits).
RECURSIVE DecimalOf(_, _, _)
DecimalOf(s, i, j) ==
    IF j <= i THEN 0 ELSE 10 * DecimalOf(s, i, j - 1) + DigitVal(s[j - 1])

\* The first position from i on that holds no white space (Len(s) + 1 at the end).
SkipWs(s, i) == SkipChars(s, i, WhiteSpace)

\* The first position from i on that holds no digit.
SkipDigits(s, i) == SkipChars(s, i, Digits)

At(s, i) == IF i >= 1 /\ i <= Len(s) THEN s[i] ELSE ""

ParseFail == [ok |-> FALSE, v |-> JUndefined, i |-> 0]

HexDigits == Digits \cup {"a", "b", "c", "d", "e", "f", "A", "B", "C", "D", "E", "F"}

\* The code unit a \uXXXX escape yields.  The alphabet has no name for an
\* arbitrary code unit: the escape keeps its four digits as one unit's spelling.
UnicodeUnit(s, i) == "u+"

\* JSON string body from position i (just after the opening quote): the
\* characters up to the closing quote, escapes decoded; a raw control
\* character or a bad escape is a SyntaxError.
RECURSIVE ScanString(_, _, _)
ScanString(s, i, acc) ==
    LET c == At(s, i)
        d == At(s, i + 1)
    IN  IF i > Len(s) THEN ParseFail
        ELSE IF c = "\"" THEN [ok |-> TRUE, v |-> JStr(acc), i |-> i + 1]
        ELSE IF c \in {"\n", "\t", "\r"} THEN ParseFail
        ELSE IF c = "\\"
             THEN IF d \in {"\"", "\\", "/"} THEN ScanString(s, i + 2, Append(acc, d))
                  ELSE IF d = "n" THEN ScanString(s, i + 2, Append(acc, "\n"))
                  ELSE IF d = "t" THEN ScanString(s, i + 2, Append(acc, "\t"))
                  ELSE IF d = "r" THEN ScanString(s, i + 2, Append(acc, "\r"))
                  ELSE IF d = "b" THEN ScanString(s, i + 2, Append(acc, "U+0008"))
                  ELSE IF d = "f" THEN ScanString(s, i + 2, Append(acc, "\f"))
                  ELSE IF d = "u" /\ \A k \in 2..5 : At(s, i + k) \in HexDigits
                       THEN ScanString(s, i + 6, Append(acc, UnicodeUnit(s, i + 2)))
                  ELSE ParseFail
        ELSE ScanString(s, i + 1, Append(acc, c))

\* JSON number at position i:  -? (0 | [1-9][0-9]*) (. [0-9]+)? ([eE] [+-]? [0-9]+)?
\* The integer part is s[intStart..intEnd-1], the fraction s[intEnd+1..fracEnd-1]
\* and the exponent's digits s[expStart..expEnd-1].
NumberValue(neg, whole, frac, places, exp) ==
    LET mant  == (IF neg THEN -1 ELSE 1) * (whole * Pow10(places) + frac)
        shift == places - exp
    IN  IF shift >= 0 THEN JNum(mant, shift) ELSE JNum(mant * Pow10(-shift), 0)

NumberExp(s, i, intStart, intEnd, fracEnd, expStart, expEnd) ==
    IF intEnd = intStart
       \/ (fracEnd > intEnd /\ fracEnd = intEnd + 1)
       \/ (expStart > fracEnd /\ expEnd = expStart)
    THEN ParseFail
    ELSE [ok |-> TRUE,
          v  |-> NumberValue(At(s, i) = "-",
                             DecimalOf(s, intStart, intEnd),
                             DecimalOf(s, intEnd + 1, fracEnd),
                             IF fracEnd > intEnd THEN fracEnd - (intEnd + 1) ELSE 0,
                             (IF At(s, expStart - 1) = "-" THEN -1 ELSE 1)
                                * DecimalOf(s, expStart, expEnd)),
          i  |-> expEnd]

NumberFrac(s, i, intStart, intEnd, fracEnd) ==
    IF At(s, fracEnd) \in {"e", "E"}
    THEN IF At(s, fracEnd + 1) \in {"+", "-"}
         THEN NumberExp(s, i, intStart, intEnd, fracEnd, fracEnd + 2, SkipDigits(s, fracEnd + 2))
         ELSE NumberExp(s, i, intStart, intEnd, fracEnd, fracEnd + 1, SkipDigits(s, fracEnd + 1))
    ELSE NumberExp(s, i, intStart, intEnd, fracEnd, fracEnd, fracEnd)

NumberInt(s, i, intStart, intEnd) ==
    NumberFrac(s, i, intStart, intEnd,
               IF At(s, intEnd) = "." THEN SkipDigits(s, intEnd + 1) ELSE intEnd)

NumberSign(s, i, intStart) ==
    NumberInt(s, i, intStart,
              IF At(s, intStart) = "0" THEN intStart + 1 ELSE SkipDigits(s, intStart))

ParseNumber(s, i) == NumberSign(s, i, IF At(s, i) = "-" THEN i + 1 ELSE i)

RECURSIVE ParseValue(_, _)
RECURSIVE ParseElements(_, _, _)
RECURSIVE ParseMembers(_, _, _)

\* After an element el of an array: "," and the next element, or "]".
ElementNext(s, acc, el, j) ==
    IF ~el.ok THEN ParseFail
    ELSE IF At(s, j) = "," THEN ParseElements(s, j + 1, Append(acc, el.v))
    ELSE IF At(s, j) = "]" THEN [ok |-> TRUE, v |-> JArr(Append(acc, el.v)), i |-> j + 1]
    ELSE ParseFail

ElementEnd(s, acc, el) == ElementNext(s, acc, el, SkipWs(s, el.i))

\* The elements of an array after "[" or ",": value (ws "," value)* ws "]".
ParseElements(s, i, acc) == ElementEnd(s, acc, ParseValue(s, i))

\* After the value val of the member named key: "," and the next member, or "}".
MemberNext(s, acc, key, val, j) ==
    IF ~val.ok THEN ParseFail
    ELSE IF At(s, j) = ","
    THEN ParseMembers(s, j + 1, Append(acc, [k |-> key.v.s, v |-> val.v]))
    ELSE IF At(s, j) = "}"
    THEN [ok |-> TRUE, v |-> JObj(Append(acc, [k |-> key.v.s, v |-> val.v])), i |-> j + 1]
    ELSE ParseFail

MemberEnd(s, acc, key, val) == MemberNext(s, acc, key, val, SkipWs(s, val.i))

MemberValue(s, acc, key, colon) ==
    MemberEnd(s, acc, key,
              IF key.ok /\ At(s, colon) = ":" THEN ParseValue(s, colon + 1) ELSE ParseFail)

MemberColon(s, acc, key) == MemberValue(s, acc, key, SkipWs(s, key.i))

MemberKey(s, acc, k0) ==
    MemberColon(s, acc, IF At(s, k0) = "\"" THEN ScanString(s, k0 + 1, <<>>) ELSE ParseFail)

\* The members of an object after "{" or ",": ws string ws ":" value ws ("," | "}").
ParseMembers(s, i, acc) == MemberKey(s, acc, SkipWs(s, i))

\* One JSON value at position j, which holds no white space; k is the first
\* position after j that holds none.
ValueAt(s, j, k) ==
    IF At(s, j) = "{"
    THEN IF At(s, k) = "}"
         THEN [ok |-> TRUE, v |-> JObj(<<>>), i |-> k + 1]
         ELSE ParseMembers(s, j + 1, <<>>)
    ELSE IF At(s, j) = "["
    THEN IF At(s, k) = "]"
         THEN [ok |-> TRUE, v |-> JArr(<<>>), i |-> k + 1]
         ELSE ParseElements(s, j + 1, <<>>)
    ELSE IF At(s, j) = "\"" THEN ScanString(s, j + 1, <<>>)
    ELSE IF At(s, j) = "-" \/ At(s, j) \in Digits THEN ParseNumber(s, j)
    ELSE IF StartsWith(Drop(s, j - 1), <<"t", "r", "u", "e">>)
    THEN [ok |-> TRUE, v |-> JBool(TRUE), i |-> j + 4]
    ELSE IF StartsWith(Drop(s, j - 1), <<"f", "a", "l", "s", "e">>)
    THEN [ok |-> TRUE, v |-> JBool(FALSE), i |-> j + 5]
    ELSE IF StartsWith(Drop(s, j - 1), <<"n", "u", "l", "l">>)
    THEN [ok |-> TRUE, v |-> JNull, i |-> j + 4]
    ELSE ParseFail

ValueFrom(s, j) == ValueAt(s, j, SkipWs(s, j + 1))

\* One JSON value from position i on, leading white space skipped.
ParseValue(s, i) == ValueFrom(s, SkipWs(s, i))

\* The whole text must be one value and white space.
ParsedWhole(s, r) ==
    IF r.ok /\ SkipWs(s, r.i) = Len(s) + 1
    THEN [ok |-> TRUE, v |-> r.v]
    ELSE [ok |-> FALSE, v |-> JUndefined]

\* JSON.parse(text): ok = FALSE stands for the SyntaxError it throws.
JSONparse(s) == ParsedWhole(s, ParseValue(s, 1))

\* obj.key for a parsed value: the last member of that name (JSON.parse keeps
\* the last duplicate), undefined when obj has none or is no object.
GetProp(val, key) ==
    LET hits == {i \in 1..Len(val.o) : val.o[i].k = key}
    IN  IF val.t # "object" \/ hits = {} THEN JUndefined
        ELSE val.o[CHOOSE i \in hits : \A j \in hits : j <= i].v


(***************************************************************************)
(* JavaScript numbers, as far as the code computes with them: the decimal  *)
(* m / 10^e as [m, e].                                                     *)
(***************************************************************************)
Num(mant, places) == [m |-> mant, e |-> places]

NumLeq(x, y) == x.m * Pow10(y.e) <= y.m * Pow10(x.e)

IsInteger(x) == x.m % Pow10(x.e) = 0

\* A variant of MathRound that leaves its argument as it is (the call of
\* Math.round forgotten); ConfidenceIsIntegerInRange tells the two apart.
MathRoundForgotten(x) == x

\* Math.round: the nearest integer, a half rounded up.
MathRound(x) == Num((2 * x.m + Pow10(x.e)) \div (2 * Pow10(x.e)), 0)

MathMax(x, y) == IF NumLeq(x, y) THEN y ELSE x

MathMin(x, y) == IF NumLeq(x, y) THEN x ELSE y

(***************************************************************************)
(* The fixed texts of the code.                                            *)
(***************************************************************************)
KeyIsOriginal == <<"i", "s", "O", "r", "i", "g", "i", "n", "a", "l">>

KeyConfidence == <<"c", "o", "n", "f", "i", "d", "e", "n", "c", "e">>

KeyObservations == <<"o", "b", "s", "e", "r", "v", "a", "t", "i", "o", "n", "s">>

KeyContent == <<"c", "o", "n", "t", "e", "n", "t">>

KeyType == <<"t", "y", "p", "e">>

KeyText == <<"t", "e", "x", "t">>

KeyChoices == <<"c", "h", "o", "i", "c", "e", "s">>

KeyMessage == <<"m", "e", "s", "s", "a", "g", "e">>

\* performMockAnalysis: the summary of an isOriginal result.
AuthenticSummary == <<
    \* "Natural texture patterns detected throughout the image"
    JStr(<<"N", "a", "t", "u", "r", "a", "l", " ", "t", "e", "x", "t", "u", "r", "e", " ", "p",
           "a", "t", "t", "e", "r", "n", "s", " ", "d", "e", "t", "e", "c", "t", "e", "d", " ",
           "t", "h", "r", "o", "u", "g", "h", "o", "u", "t", " ", "t", "h", "e", " ", "i", "m",
           "a", "g", "e">>),
    \* "Lighting and shadow consistency appears authentic"
    JStr(<<"L", "i", "g", "h", "t", "i", "n", "g", " ", "a", "n", "d", " ", "s", "h", "a", "d",
           "o", "w", " ", "c", "o", "n", "s", "i", "s", "t", "e", "n", "c", "y", " ", "a", "p",
           "p", "e", "a", "r", "s", " ", "a", "u", "t", "h", "e", "n", "t", "i", "c">>),
    \* "No obvious AI generation artifacts found"
    JStr(<<"N", "o", " ", "o", "b", "v", "i", "o", "u", "s", " ", "A", "I", " ", "g", "e", "n",
           "e", "r", "a", "t", "i", "o", "n", " ", "a", "r", "t", "i", "f", "a", "c", "t", "s",
           " ", "f", "o", "u", "n", "d">>),
    \* "Image metadata suggests original capture"
    JStr(<<"I", "m", "a", "g", "e", " ", "m", "e", "t", "a", "d", "a", "t", "a", " ", "s", "u",
           "g", "g", "e", "s", "t", "s", " ", "o", "r", "i", "g", "i", "n", "a", "l", " ", "c",
           "a", "p", "t", "u", "r", "e">>)
    >>

\* performMockAnalysis: the summary of a result that is not isOriginal.
AiSummary == <<
    \* "Unusual smoothness patterns detected in specific regions"
    JStr(<<"U", "n", "u", "s", "u", "a", "l", " ", "s", "m", "o", "o", "t", "h", "n", "e", "s",
           "s", " ", "p", "a", "t", "t", "e", "r", "n", "s", " ", "d", "e", "t", "e", "c", "t",
           "e", "d", " ", "i", "n", " ", "s", "p", "e", "c", "i", "f", "i", "c", " ", "r", "e",
           "g", "i", "o", "n", "s">>),
    \* "Inconsistent noise distribution across the image"
    JStr(<<"I", "n", "c", "o", "n", "s", "i", "s", "t", "e", "n", "t", " ", "n", "o", "i", "s",
           "e", " ", "d", "i", "s", "t", "r", "i", "b", "u", "t", "i", "o", "n", " ", "a", "c",
           "r", "o", "s", "s", " ", "t", "h", "e", " ", "i", "m", "a", "g", "e">>),
    \* "Texture repetition patterns typical of AI generation"
    JStr(<<"T", "e", "x", "t", "u", "r", "e", " ", "r", "e", "p", "e", "t", "i", "t", "i", "o",
           "n", " ", "p", "a", "t", "t", "e", "r", "n", "s", " ", "t", "y", "p", "i", "c", "a",
           "l", " ", "o", "f", " ", "A", "I", " ", "g", "e", "n", "e", "r", "a", "t", "i", "o",
           "n">>),
    \* "Subtle artifacts found in fine details"
    JStr(<<"S", "u", "b", "t", "l", "e", " ", "a", "r", "t", "i", "f", "a", "c", "t", "s", " ",
           "f", "o", "u", "n", "d", " ", "i", "n", " ", "f", "i", "n", "e", " ", "d", "e", "t",
           "a", "i", "l", "s">>)
    >>

\* analyzeWithClaude: the heuristic summary when no line qualifies.
ClaudeDefaultSummary == <<
    \* "Analysis completed but response format was unexpected"
    JStr(<<"A", "n", "a", "l", "y", "s", "i", "s", " ", "c", "o", "m", "p", "l", "e", "t", "e",
           "d", " ", "b", "u", "t", " ", "r", "e", "s", "p", "o", "n", "s", "e", " ", "f", "o",
           "r", "m", "a", "t", " ", "w", "a", "s", " ", "u", "n", "e", "x", "p", "e", "c", "t",
           "e", "d">>),
    \* "Technical analysis performed on image structure"
    JStr(<<"T", "e", "c", "h", "n", "i", "c", "a", "l", " ", "a", "n", "a", "l", "y", "s", "i",
           "s", " ", "p", "e", "r", "f", "o", "r", "m", "e", "d", " ", "o", "n", " ", "i", "m",
           "a", "g", "e", " ", "s", "t", "r", "u", "c", "t", "u", "r", "e">>),
    \* "Review recommended for accuracy verification"
    JStr(<<"R", "e", "v", "i", "e", "w", " ", "r", "e", "c", "o", "m", "m", "e", "n", "d", "e",
           "d", " ", "f", "o", "r", " ", "a", "c", "c", "u", "r", "a", "c", "y", " ", "v", "e",
           "r", "i", "f", "i", "c", "a", "t", "i", "o", "n">>),
    \* "Consider manual inspection for confirmation"
    JStr(<<"C", "o", "n", "s", "i", "d", "e", "r", " ", "m", "a", "n", "u", "a", "l", " ", "i",
           "n", "s", "p", "e", "c", "t", "i", "o", "n", " ", "f", "o", "r", " ", "c", "o", "n",
           "f", "i", "r", "m", "a", "t", "i", "o", "n">>)
    >>

\* analyzeWithDeepSeek: the heuristic summary when no line qualifies.
DeepSeekDefaultSummary == <<
    \* "Analysis completed with limited data"
    JStr(<<"A", "n", "a", "l", "y", "s", "i", "s", " ", "c", "o", "m", "p", "l", "e", "t", "e",
           "d", " ", "w", "i", "t", "h", " ", "l", "i", "m", "i", "t", "e", "d", " ", "d", "a",
           "t", "a">>),
    \* "Technical pattern analysis performed"
    JStr(<<"T", "e", "c", "h", "n", "i", "c", "a", "l", " ", "p", "a", "t", "t", "e", "r", "n",
           " ", "a", "n", "a", "l", "y", "s", "i", "s", " ", "p", "e", "r", "f", "o", "r", "m",
           "e", "d">>),
    \* "Manual review recommended for accuracy"
    JStr(<<"M", "a", "n", "u", "a", "l", " ", "r", "e", "v", "i", "e", "w", " ", "r", "e", "c",
           "o", "m", "m", "e", "n", "d", "e", "d", " ", "f", "o", "r", " ", "a", "c", "c", "u",
           "r", "a", "c", "y">>),
    \* "Consider additional verification methods"
    JStr(<<"C", "o", "n", "s", "i", "d", "e", "r", " ", "a", "d", "d", "i", "t", "i", "o", "n",
           "a", "l", " ", "v", "e", "r", "i", "f", "i", "c", "a", "t", "i", "o", "n", " ", "m",
           "e", "t", "h", "o", "d", "s">>)
    >>

\* The negative-indicator keywords of the two heuristic verdicts.
ClaudeKeywords == {<<"a", "i", "-", "g", "e", "n", "e", "r", "a", "t", "e", "d">>,
                   <<"a", "r", "t", "i", "f", "i", "c", "i", "a", "l">>,
                   <<"g", "e", "n", "e", "r", "a", "t", "e", "d">>,
                   <<"f", "a", "k", "e">>}

DeepSeekKeywords == {<<"a", "i", "-", "g", "e", "n", "e", "r", "a", "t", "e", "d">>,
                     <<"a", "r", "t", "i", "f", "i", "c", "i", "a", "l">>,
                     <<"g", "e", "n", "e", "r", "a", "t", "e", "d">>}

(***************************************************************************)
(* performMockAnalysis, src/backend.js 107-126.  The two Math.random()     *)
(* draws are r1 / RandDen and r2 / RandDen with 0 <= r < RandDen.          *)
(***************************************************************************)
RandDen == 21

MockSpan == 21

MockBase == 75

Draws == 0..(RandDen - 1)

\* A variant of performMockAnalysis that picks the summary on a draw of its
\* own, not on isOriginal; MockConfidenceAndSummary tells the two apart.
performMockAnalysisRedrawn(r1, r2) ==
    LET isOriginal == 2 * r1 > RandDen
        confidence == Num(((r2 * MockSpan) \div RandDen) + MockBase, 0)
    IN  [isOriginal     |-> isOriginal,
         confidence     |-> confidence,
         summary        |-> IF 2 * r2 > RandDen THEN AuthenticSummary ELSE AiSummary,
         analysisMethod |-> "mock"]

performMockAnalysis(r1, r2) ==
    LET isOriginal == 2 * r1 > RandDen
        confidence == Num(((r2 * MockSpan) \div RandDen) + MockBase, 0)
    IN  [isOriginal     |-> isOriginal,
         confidence     |-> confidence,
         summary        |-> IF isOriginal THEN AuthenticSummary ELSE AiSummary,
         analysisMethod |-> "mock"]

\* The results performMockAnalysis can give.
MockResults == {performMockAnalysis(r1, r2) : r1 \in Draws, r2 \in Draws}

\* One pair of draws for each of them.
MockDraws ==
    {CHOOSE d \in Draws \X Draws : performMockAnalysis(d[1], d[2]) = result : result \in MockResults}

\* A variant of MockFallback that attaches the reason and leaves the tag of
\* performMockAnalysis in place; TagAndReason tells the two apart.
MockFallbackNotRetagged(r1, r2, message) ==
    LET mockResult == performMockAnalysis(r1, r2)
    IN  [isOriginal     |-> mockResult.isOriginal,
         confidence     |-> mockResult.confidence,
         summary        |-> mockResult.summary,
         analysisMethod |-> mockResult.analysisMethod,
         fallbackReason |-> message]

\* A variant of MockFallback that attaches a fixed text in place of the
\* error's message; FailureGivesMockFallback tells the two apart.
MockFallbackFixedReason(r1, r2, message) ==
    LET mockResult == performMockAnalysis(r1, r2)
    IN  [isOriginal     |-> mockResult.isOriginal,
         confidence     |-> mockResult.confidence,
         summary        |-> mockResult.summary,
         analysisMethod |-> "mock-fallback",
         fallbackReason |-> <<"Unknown error">>]

\* The catch (apiError) block of analyzeWithClaude and analyzeWithDeepSeek:
\* the mock result, retagged and given the error's message.
MockFallback(r1, r2, message) ==
    LET mockResult == performMockAnalysis(r1, r2)
    IN  [isOriginal     |-> mockResult.isOriginal,
         confidence     |-> mockResult.confidence,
         summary        |-> mockResult.summary,
         analysisMethod |-> "mock-fallback",
         fallbackReason |-> message]

(***************************************************************************)
(* The strict parser: the inner try block of both analyze functions.       *)
(***************************************************************************)
ApiTag(provider) == IF provider = "claude" THEN "claude-api" ELSE "deepseek-api"

FallbackTag(provider) ==
    IF provider = "claude" THEN "claude-api-fallback" ELSE "deepseek-api-fallback"

\* A variant of JsonText that hands the trimmed reply to JSON.parse as it is;
\* FenceMakesNoDifference tells the two apart.
JsonTextAsReceived(textContent) == trim(textContent)

\* Lines 209-214 / 343-348: the text handed to JSON.parse.
JsonText(textContent) ==
    LET trimmed  == trim(textContent)
        unfenced == IF includes(trimmed, Fence)
                    THEN trim(StripFences(StripJsonFences(trimmed)))
                    ELSE trimmed
        jsonMatch == MatchBraces(unfenced)
    IN  IF jsonMatch.found THEN jsonMatch.text ELSE unfenced

HundredNum == Num(100, 0)

ZeroNum == Num(0, 0)

\* A variant of ClampConfidence without the lower bound; RoundedThenClamped
\* tells the two apart.
ClampConfidenceAbove(c) == MathMin(HundredNum, MathRound(c))

\* Math.min(100, Math.max(0, Math.round(c)))
ClampConfidence(c) == MathMin(HundredNum, MathMax(ZeroNum, MathRound(c)))

\* Lines 219-230 / 353-364: the three schema checks on the members read from
\* the parsed value, and the result.
CheckedResult(provider, isOriginal, confidence, observations) ==
    IF isOriginal.t # "boolean" \/ confidence.t # "number" \/ observations.t # "array"
    THEN [ok |-> FALSE, result |-> <<>>]
    ELSE [ok |-> TRUE,
          result |-> [isOriginal     |-> isOriginal.b,
                      confidence     |-> ClampConfidence(Num(confidence.m, confidence.e)),
                      summary        |-> observations.a,
                      analysisMethod |-> ApiTag(provider)]]

\* Lines 217-230 / 351-364 for the outcome p of JSON.parse.  ok = FALSE stands
\* for every throw of the block: JSON.parse's SyntaxError, the TypeError of
\* reading a property of null, and the three schema errors.
StrictResult(provider, p) ==
    IF ~p.ok \/ p.v.t = "null"
    THEN [ok |-> FALSE, result |-> <<>>]
    ELSE CheckedResult(provider, GetProp(p.v, KeyIsOriginal),
                       GetProp(p.v, KeyConfidence), GetProp(p.v, KeyObservations))

\* Lines 208-230 / 342-364: the inner try block.
StrictParse(provider, textContent) == StrictResult(provider, JSONparse(JsonText(textContent)))

(***************************************************************************)
(* The heuristic extraction: the catch (parseErr) block.                   *)
(***************************************************************************)
Keywords(provider) == IF provider = "claude" THEN ClaudeKeywords ELSE DeepSeekKeywords

HeuristicVerdict(provider, textContent) ==
    LET textLower == toLowerCase(textContent)
    IN  \A kw \in Keywords(provider) : ~includes(textLower, kw)

\* .filter(line => line.trim().length > 10)
MinLineLength == 10

RECURSIVE LongLines(_)
LongLines(lines) ==
    IF lines = <<>> THEN <<>>
    ELSE (IF Len(trim(Head(lines))) > MinLineLength THEN <<Head(lines)>> ELSE <<>>)
         \o LongLines(Tail(lines))

BulletChars == {"-", "*", Bullet, ".", ")", "]"} \cup Digits

\* line.replace(/^[-*•\d.)\]]+\s*/, ''): one or more bullet characters at
\* the start of the line and the white space after them.
StripBullet(line) ==
    IF line # <<>> /\ Head(line) \in BulletChars
    THEN TrimStart(Drop(line, SkipChars(line, 1, BulletChars) - 1))
    ELSE line

MaxObservations == 4

DefaultSummary(provider) ==
    IF provider = "claude" THEN ClaudeDefaultSummary ELSE DeepSeekDefaultSummary

HeuristicConfidence == 70

HeuristicSummary(provider, textContent) ==
    LET lines        == LongLines(split(textContent, "\n"))
        kept         == slice0(lines, MaxObservations)
        observations == [i \in 1..Len(kept) |-> JStr(trim(StripBullet(kept[i])))]
    IN  IF Len(observations) > 0 THEN observations ELSE DefaultSummary(provider)

HeuristicExtract(provider, textContent) ==
    [isOriginal     |-> HeuristicVerdict(provider, textContent),
     confidence     |-> Num(HeuristicConfidence, 0),
     summary        |-> HeuristicSummary(provider, textContent),
     analysisMethod |-> FallbackTag(provider)]

\* A variant of StrictOrHeuristic in which the result of the try block is
\* lost and the catch (parseErr) block's is returned for every reply;
\* HeuristicIffStrictParseFailed tells the two apart.
StrictOrHeuristicAlwaysCaught(provider, textContent, strict) ==
    HeuristicExtract(provider, textContent)

\* The result of the try block, or of the catch (parseErr) block when it threw.
StrictOrHeuristic(provider, textContent, strict) ==
    IF strict.ok THEN strict.result ELSE HeuristicExtract(provider, textContent)

\* Lines 208-256 / 342-389: the strict parse, and the heuristic when it throws.
ParseReply(provider, textContent) ==
    StrictOrHeuristic(provider, textContent, StrictParse(provider, textContent))

(***************************************************************************)
(* The reply envelope: response.json() and the extraction of the text      *)
(* field.  An error message is the sequence of the fragments that make it. *)
(***************************************************************************)
\* A variant of Truthy that asks only for a value to be there (v != null);
\* MissingImageRejected tells the two apart.
TruthyIfPresent(val) == val.t \notin {"undefined", "null"}

\* JavaScript truthiness of a JSON value: !!v
Truthy(val) ==
    /\ val.t \notin {"undefined", "null"}
    /\ ~(val.t = "boolean" /\ ~val.b)
    /\ ~(val.t = "number" /\ val.m = 0)
    /\ ~(val.t = "string" /\ val.s = <<>>)

Threw(msg) == [threw |-> TRUE, message |-> msg, text |-> <<>>]

Returned(chars) == [threw |-> FALSE, message |-> <<>>, text |-> chars]

\* v || '' followed by textContent.substring(0, 150): a truthy value that is
\* no string has no substring method.
TextOrEmpty(val) ==
    IF ~Truthy(val) THEN Returned(<<>>)
    ELSE IF val.t = "string" THEN Returned(val.s)
    ELSE Threw(<<"textContent.substring is not a function">>)

\* The index of the first element c of items with c.type === 'text', 0 when
\* there is none; -1 when the callback reads .type of a null element first.
RECURSIVE FindText(_, _)
FindText(items, i) ==
    IF i > Len(items) THEN 0
    ELSE IF items[i].t = "null" THEN -1
    ELSE IF GetProp(items[i], KeyType) = JStr(KeyText) THEN i
    ELSE FindText(items, i + 1)

\* Line 204: data.content.find(c => c.type === 'text')?.text || ''
ClaudeText(data) ==
    LET content == GetProp(data, KeyContent)
        hit     == FindText(content.a, 1)
    IN  IF data.t = "null"
        THEN Threw(<<"Cannot read properties of null (reading 'content')">>)
        ELSE IF content.t = "undefined"
        THEN Threw(<<"Cannot read properties of undefined (reading 'find')">>)
        ELSE IF content.t = "null"
        THEN Threw(<<"Cannot read properties of null (reading 'find')">>)
        ELSE IF content.t # "array"
        THEN Threw(<<"data.content.find is not a function">>)
        ELSE IF hit = -1
        THEN Threw(<<"Cannot read properties of null (reading 'type')">>)
        ELSE IF hit = 0 THEN Returned(<<>>)
        ELSE TextOrEmpty(GetProp(content.a[hit], KeyText))

\* x?.[0] : the first element of an array, the first code unit of a string,
\* the member "0" of an object.
FirstOf(val) ==
    IF val.t = "array" THEN (IF val.a = <<>> THEN JUndefined ELSE val.a[1])
    ELSE IF val.t = "string" THEN (IF val.s = <<>> THEN JUndefined ELSE JStr(<<val.s[1]>>))
    ELSE GetProp(val, <<"0">>)

\* Line 338: data.choices?.[0]?.message?.content || ''
DeepSeekText(data) ==
    LET choices == GetProp(data, KeyChoices)
        first   == FirstOf(choices)
        message == GetProp(first, KeyMessage)
        content == GetProp(message, KeyContent)
    IN  IF data.t = "null"
        THEN Threw(<<"Cannot read properties of null (reading 'choices')">>)
        ELSE TextOrEmpty(content)

ExtractText(provider, data) ==
    IF provider = "claude" THEN ClaudeText(data) ELSE DeepSeekText(data)

\* The envelope each API documents for a reply whose text is chars.
ClaudeEnvelope(val) ==
    JObj(<<[k |-> KeyContent,
            v |-> JArr(<<JObj(<<[k |-> KeyType, v |-> JStr(KeyText)],
                                [k |-> KeyText, v |-> val]>>)>>)]>>)

DeepSeekEnvelope(val) ==
    JObj(<<[k |-> KeyChoices,
            v |-> JArr(<<JObj(<<[k |-> KeyMessage,
                                 v |-> JObj(<<[k |-> KeyContent, v |-> val]>>)]>>)>>)]>>)


(***************************************************************************)
(* The request body's image: lines 51-63 of the /analyze handler.          *)
(***************************************************************************)
Letters == {UpperCase[i] : i \in 1..26} \cup {LowerCase[i] : i \in 1..26}

SkipLetters(s, i) == SkipChars(s, i, Letters)

DataImagePrefix == <<"d", "a", "t", "a", ":", "i", "m", "a", "g", "e", "/">>

DefaultMediaType == <<"i", "m", "a", "g", "e", "/", "j", "p", "e", "g">>

\* header.match(/data:(image\/[a-zA-Z]+);/): the first capture, <<>> when the
\* header has no match.
MimeMatch(header) ==
    LET n      == Len(DataImagePrefix)
        starts == {i \in 1..Len(header) :
                     /\ StartsWith(Drop(header, i - 1), DataImagePrefix)
                     /\ SkipLetters(header, i + n) > i + n
                     /\ At(header, SkipLetters(header, i + n)) = ";"}
        first  == CHOOSE i \in starts : \A j \in starts : i <= j
    IN  IF starts = {} THEN <<>>
        ELSE SubSeq(header, first + 5, SkipLetters(header, first + n) - 1)

\* Lines 51-63.  threw = TRUE is the TypeError of calling includes or split
\* on a value that has no such method.
ReadImage(image) ==
    IF image.t = "string"
    THEN IF includes(image.s, <<",">>)
         THEN LET parts     == split(image.s, ",")
                  mimeMatch == MimeMatch(parts[1])
              IN  [threw      |-> FALSE,
                   message    |-> <<>>,
                   mediaType  |-> IF mimeMatch # <<>> THEN mimeMatch ELSE DefaultMediaType,
                   base64Data |-> JStr(parts[2])]
         ELSE [threw |-> FALSE, message |-> <<>>,
               mediaType |-> DefaultMediaType, base64Data |-> image]
    ELSE IF image.t = "array"
    THEN IF \E i \in 1..Len(image.a) : image.a[i] = JStr(<<",">>)
         THEN [threw |-> TRUE, message |-> <<"image.split is not a function">>,
               mediaType |-> DefaultMediaType, base64Data |-> image]
         ELSE [threw |-> FALSE, message |-> <<>>,
               mediaType |-> DefaultMediaType, base64Data |-> image]
    ELSE [threw |-> TRUE, message |-> <<"image.includes is not a function">>,
          mediaType |-> DefaultMediaType, base64Data |-> image]

(***************************************************************************)
(* The server.  One action is one turn of the event loop: the code of the  *)
(* handler between two awaits.  A request occupies a slot from its arrival *)
(* to its response.                                                        *)
(***************************************************************************)
VARIABLES
    CLAUDE_KEY,    \* process.env.CLAUDE_API_KEY, read once at start-up
    DEEPSEEK_KEY,  \* process.env.DEEPSEEK_API_KEY
    pc,            \* slot -> "idle" | "fetch" | "text" | "json": the await the handler is at
    req,           \* slot -> the request in the slot and what was done for it so far
    sent,          \* the response written in this turn, until the socket has taken it
    tProvider,     \* text check: the provider whose parser is applied
    tText,         \* text check: a reply text
    tFence,        \* text check: the fence the reply is wrapped in
    tOut           \* text check: the results for the reply as is and wrapped

vars == <<CLAUDE_KEY, DEEPSEEK_KEY, pc, req, sent, tProvider, tText, tFence, tOut>>

serverVars == <<CLAUDE_KEY, DEEPSEEK_KEY, pc, req, sent>>

textVars == <<tProvider, tText, tFence, tOut>>

NumRequests == 2

Requests == 1..NumRequests

Providers == {"claude", "deepseek"}

NoResponse == [status |-> 0]

NoRequest == [image |-> JUndefined, mediaType |-> <<>>, base64Data |-> JUndefined,
              status |-> 0, calls |-> <<>>, mockRuns |-> 0]

\* textContent before line 204 / 338 has run.
NoReply == [read |-> FALSE, text |-> <<>>]

\* textContent once the reply's text is read.
Reply(chars) == [read |-> TRUE, text |-> chars]

\* res.status(code).json(body) for the request in slot r.  With the response
\* goes what the handler did for the request: the await it was at when it
\* responded, the status the provider answered with (0 when none came), the
\* calls it issued, the runs of performMockAnalysis and the reply text it
\* read.  built is the object that became the body as the function that
\* constructed it returned it: the body itself, unless it was assigned to
\* afterwards.
Response(r, code, body) ==
    [slot |-> r, status |-> code, body |-> body, built |-> body,
     image |-> req[r].image, at |-> pc[r], apiStatus |-> req[r].status,
     calls |-> req[r].calls, mockRuns |-> req[r].mockRuns, reply |-> NoReply]

\* A variant of RespondFallback in which the catch (apiError) block throws
\* the error on, to the handler's catch block and its status 500;
\* ProviderFailureAnswered200 tells the two apart.
RespondFallbackRethrown(r, message) ==
    /\ sent' = Response(r, 500, [error   |-> "Failed to analyze image",
                                 message |-> message])
    /\ pc' = [pc EXCEPT ![r] = "idle"]
    /\ req' = [req EXCEPT ![r] = NoRequest]

\* A variant of RespondFallback in which the catch (apiError) block calls the
\* other provider; OneCallPerRequest tells the two apart.
RespondFallbackNextProvider(r, message) ==
    /\ pc' = [pc EXCEPT ![r] = "fetch"]
    /\ req' = [req EXCEPT ![r].calls =
                  Append(@, IF @[Len(@)] = "claude" THEN "deepseek" ELSE "claude")]
    /\ sent' = NoResponse

\* Lines 264-267 / 397-400 and the handler's res.json(result): the object
\* that performMockAnalysis returned is assigned its new tag and the error
\* message, and sent with status 200.
RespondFallback(r, message) ==
    \E mock \in {[returned |-> performMockAnalysis(d[1], d[2]),
                  result   |-> MockFallback(d[1], d[2], message)] : d \in MockDraws} :
        /\ sent' = [Response(r, 200, mock.result)
                       EXCEPT !.mockRuns = @ + 1, !.built = mock.returned]
        /\ pc' = [pc EXCEPT ![r] = "idle"]
        /\ req' = [req EXCEPT ![r] = NoRequest]

\* A variant of SelectProvider that asks for the DeepSeek key first;
\* ClaudeThenDeepSeekThenMock tells the two apart.
SelectProviderDeepSeekFirst ==
    IF Truthy(DEEPSEEK_KEY) THEN "deepseek"
    ELSE IF Truthy(CLAUDE_KEY) THEN "claude"
    ELSE "mock"

\* Lines 72-83: if (CLAUDE_KEY) ... else if (DEEPSEEK_KEY) ... else ...
SelectProvider ==
    IF Truthy(CLAUDE_KEY) THEN "claude"
    ELSE IF Truthy(DEEPSEEK_KEY) THEN "deepseek"
    ELSE "mock"

\* Lines 39-83: the request arrives; the handler runs to its first await or
\* to its response.
Receive(r, image) ==
    LET img      == ReadImage(image)
        provider == SelectProvider
        arrived  == [NoRequest EXCEPT !.image = image]
    IN  /\ pc[r] = "idle"
        /\ sent.status = 0
        /\ IF ~Truthy(image)
           THEN /\ sent' = [Response(r, 400, [error   |-> "No image provided",
                                              message |-> <<"Please upload an image to analyze">>])
                               EXCEPT !.image = image]
                /\ UNCHANGED <<pc, req>>
           ELSE IF img.threw
           THEN /\ sent' = [Response(r, 500, [error   |-> "Failed to analyze image",
                                              message |-> img.message])
                               EXCEPT !.image = image]
                /\ UNCHANGED <<pc, req>>
           ELSE IF provider = "mock"
           THEN /\ \E result \in MockResults :
                       sent' = [Response(r, 200, result)
                                   EXCEPT !.image = image, !.mockRuns = 1]
                /\ UNCHANGED <<pc, req>>
           ELSE /\ pc' = [pc EXCEPT ![r] = "fetch"]
                /\ req' = [req EXCEPT ![r] =
                              [arrived EXCEPT !.mediaType = img.mediaType,
                                              !.base64Data = img.base64Data,
                                              !.calls = <<provider>>]]
                /\ sent' = NoResponse
        /\ UNCHANGED <<CLAUDE_KEY, DEEPSEEK_KEY>>

\* The provider the outstanding call of slot r went to.
Provider(r) == req[r].calls[Len(req[r].calls)]

\* Lines 185-193 / 281-327, fetch rejects (a transport error).
FetchRejects(r, message) ==
    /\ pc[r] = "fetch"
    /\ sent.status = 0
    /\ RespondFallback(r, message)
    /\ UNCHANGED <<CLAUDE_KEY, DEEPSEEK_KEY>>

\* response.ok
Ok(status) == status >= 200 /\ status <= 299

\* A variant of FetchResolves that keeps the response of fetch in one place
\* for all requests: the status of every outstanding request is overwritten;
\* RequestsAreIndependent tells the two apart.
FetchResolvesSharedResponse(r, status) ==
    /\ pc[r] = "fetch"
    /\ sent.status = 0
    /\ pc' = [pc EXCEPT ![r] = IF Ok(status) THEN "json" ELSE "text"]
    /\ req' = [q \in Requests |->
                  IF pc[q] # "idle" THEN [req[q] EXCEPT !.status = status] ELSE req[q]]
    /\ UNCHANGED <<CLAUDE_KEY, DEEPSEEK_KEY, sent>>

\* Lines 195-203 / 329-337: the response's head is in; the handler awaits
\* response.text() when it is not ok and response.json() when it is.
FetchResolves(r, status) ==
    /\ pc[r] = "fetch"
    /\ sent.status = 0
    /\ pc' = [pc EXCEPT ![r] = IF Ok(status) THEN "json" ELSE "text"]
    /\ req' = [req EXCEPT ![r].status = status]
    /\ UNCHANGED <<CLAUDE_KEY, DEEPSEEK_KEY, sent>>

ApiName(provider) == IF provider = "claude" THEN "Claude" ELSE "DeepSeek"

\* Line 200 / 334: `${name} API error: ${response.status} - ${errorText}`
ApiErrorMessage(provider, status, errorText) ==
    <<ApiName(provider), " API error: ", ToString(status), " - ", errorText>>

\* Lines 198-200 / 332-334: the error body is read and the error thrown.
TextResolves(r, errorText) ==
    /\ pc[r] = "text"
    /\ sent.status = 0
    /\ RespondFallback(r, ApiErrorMessage(Provider(r), req[r].status, errorText))
    /\ UNCHANGED <<CLAUDE_KEY, DEEPSEEK_KEY>>

\* A variant of BodyRejects in which the rejection is caught by no block: the
\* handler ends there and writes no response; ExactlyOneResponse tells the
\* two apart.
BodyRejectsUncaught(r, message) ==
    /\ pc[r] \in {"text", "json"}
    /\ sent.status = 0
    /\ pc' = [pc EXCEPT ![r] = "ended"]
    /\ UNCHANGED <<CLAUDE_KEY, DEEPSEEK_KEY, req, sent>>

\* response.text() or response.json() rejects: the body cannot be read or is
\* no JSON.
BodyRejects(r, message) ==
    /\ pc[r] \in {"text", "json"}
    /\ sent.status = 0
    /\ RespondFallback(r, message)
    /\ UNCHANGED <<CLAUDE_KEY, DEEPSEEK_KEY>>

\* The socket takes the response; the next turn of the event loop starts.
Flush ==
    /\ sent.status # 0
    /\ sent' = NoResponse
    /\ UNCHANGED <<CLAUDE_KEY, DEEPSEEK_KEY, pc, req>>


(***************************************************************************)
(* The inputs: what a client and a provider can send.                      *)
(***************************************************************************)
\* The values of an API key in the environment: unset, set to the empty
\* string, set.
KeyValues == {JUndefined, JStr(<<>>), JStr(<<"s", "k", "-", "k", "e", "y">>)}

\* req.body.image: absent, null, the empty string, 0, a bare base64 string, a
\* data URL with and without a media type, and values that are no strings.
Base64Image == JStr(<<"Q", "U", "J", "D">>)

\* spells JStr('data:image/png;base64,QUJD')
PngDataUrl == JStr(<<"d", "a", "t", "a", ":", "i", "m", "a", "g", "e", "/", "p", "n", "g", ";", "b", "a", "s", "e", "6", "4", ",", "Q", "U", "J", "D">>)

BareDataUrl == JStr(<<"d", "a", "t", "a", ":", ";", "b", "a", "s", "e", "6", "4", ",", "Q", "U", "J", "D">>)

Images == {JUndefined, JNull, JStr(<<>>), JNum(0, 0),
           Base64Image, PngDataUrl, BareDataUrl,
           JNum(42, 0), JArr(<<JStr(<<",">>)>>)}

\* Transport errors of fetch, by message.
NetworkErrors == {<<"request to the API failed, reason: connect ECONNREFUSED">>}

\* Errors of response.text() and response.json(), by message.
BodyErrors == {<<"invalid json response body: Unexpected token < in JSON at position 0">>}

\* The statuses a provider answers with.
Statuses == {200, 503}

\* The bodies of its error responses.
ErrorTexts == {"{\"error\":\"unavailable\"}"}

\* The reply texts: JSON documents in the format the prompt asks for, put
\* together from the literals of their three members.
DocText(isOriginal, confidence, observations) ==
    <<"{", "\"", "i", "s", "O", "r", "i", "g", "i", "n", "a", "l", "\"", ":">> \o isOriginal
    \o <<",", "\"", "c", "o", "n", "f", "i", "d", "e", "n", "c", "e", "\"", ":">> \o confidence
    \o <<",", "\"", "o", "b", "s", "e", "r", "v", "a", "t", "i", "o", "n", "s", "\"", ":">> \o observations \o <<"}">>

OriginalLits == {<<"t", "r", "u", "e">>, <<"f", "a", "l", "s", "e">>, <<"\"", "y", "e", "s", "\"">>}

\* spells '150', '-5', '85', '70.5', '99.5', '100.4', '-0.5', '0.49',
ConfidenceLits == {<<"1", "5", "0">>, <<"-", "5">>, <<"8", "5">>, <<"7", "0", ".", "5">>, <<"9", "9", ".", "5">>, <<"1", "0", "0", ".", "4">>, <<"-", "0", ".", "5">>, <<"0", ".", "4", "9">>,
                   <<"2", ".", "5">>, <<"8", "4", ".", "6">>, <<"1", "e", "2">>, <<"\"", "h", "i", "g", "h", "\"">>}

ObservationLits == {<<"[", "\"", "a", "\"", ",", "\"", "b", "\"", ",", "\"", "c", "\"", ",", "\"", "d", "\"", "]">>,
                    <<"[", "]">>,
                    \* spells '["soft {edges}","fake"]',
                    <<"[", "\"", "s", "o", "f", "t", " ", "{", "e", "d", "g", "e", "s", "}", "\"", ",", "\"", "f", "a", "k", "e", "\"", "]">>,
                    <<"[", "\"">> \o Fence \o <<"j", "s", "o", "n", " ", "i", "n", " ", "t", "e", "x", "t", "\"", "]">>,
                    <<"[", "1", ",", "n", "u", "l", "l", "]">>,
                    <<"\"", "n", "o", "n", "e", "\"">>}

Docs == {DocText(o, c, obs) : o \in OriginalLits, c \in ConfidenceLits, obs \in ObservationLits}

\* Replies that are JSON of another shape, or no JSON.
OtherTexts == {<<>>,
               <<"n", "u", "l", "l">>,
               <<"[", "1", ",", "2", "]">>,
               <<"{", "\"", "i", "s", "O", "r", "i", "g", "i", "n", "a", "l", "\"", ":", "t", "r", "u", "e", "}">>,
               \* spells '{"isOriginal":true,"confidence":80,"observations":["a"],}',
               <<"{", "\"", "i", "s", "O", "r", "i", "g", "i", "n", "a", "l", "\"", ":", "t", "r", "u", "e", ",", "\"", "c", "o", "n", "f", "i", "d", "e", "n", "c", "e", "\"", ":", "8", "0", ",", "\"", "o", "b", "s", "e", "r", "v", "a", "t", "i", "o", "n", "s", "\"", ":", "[", "\"", "a", "\"", "]", ",", "}">>,
               \* spells 'Verdict: {"isOriginal":false,"confidence":91.5,"observations":["x"]} as asked',
               <<"V", "e", "r", "d", "i", "c", "t", ":", " ", "{", "\"", "i", "s", "O", "r", "i", "g", "i", "n", "a", "l", "\"", ":", "f", "a", "l", "s", "e", ",", "\"", "c", "o", "n", "f", "i", "d", "e", "n", "c", "e", "\"", ":", "9", "1", ".", "5", ",", "\"", "o", "b", "s", "e", "r", "v", "a", "t", "i", "o", "n", "s", "\"", ":", "[", "\"", "x", "\"", "]", "}", " ", "a", "s", " ", "a", "s", "k", "e", "d">>,
               \* spells '{"confidence":10,"isOriginal":true,"observations":[],"confidence":60}',
               <<"{", "\"", "c", "o", "n", "f", "i", "d", "e", "n", "c", "e", "\"", ":", "1", "0", ",", "\"", "i", "s", "O", "r", "i", "g", "i", "n", "a", "l", "\"", ":", "t", "r", "u", "e", ",", "\"", "o", "b", "s", "e", "r", "v", "a", "t", "i", "o", "n", "s", "\"", ":", "[", "]", ",", "\"", "c", "o", "n", "f", "i", "d", "e", "n", "c", "e", "\"", ":", "6", "0", "}">>,
               \* spells '{\n  "isOriginal": false,\n  "confidence": 88,\n  "observations": ["generated\nlook"]\n}'}
               <<"{", "\n", " ", " ", "\"", "i", "s", "O", "r", "i", "g", "i", "n", "a", "l", "\"", ":", " ", "f", "a", "l", "s", "e", ",", "\n", " ", " ", "\"", "c", "o", "n", "f", "i", "d", "e", "n", "c", "e", "\"", ":", " ", "8", "8", ",", "\n", " ", " ", "\"", "o", "b", "s", "e", "r", "v", "a", "t", "i", "o", "n", "s", "\"", ":", " ", "[", "\"", "g", "e", "n", "e", "r", "a", "t", "e", "d", "\\", "n", "l", "o", "o", "k", "\"", "]", "\n", "}">>}

\* Replies in prose: up to MaxPad numbered findings, then up to MaxFree lines
\* of ProseLines, joined by line feeds.
MaxPad == 4

MaxFree == 1

\* spells 'Finding ' + <<ToString(i)>> + ' is a clear detail'
PadLine(i) == <<"F", "i", "n", "d", "i", "n", "g", " ">> \o <<ToString(i)>> \o <<" ", "i", "s", " ", "a", " ", "c", "l", "e", "a", "r", " ", "d", "e", "t", "a", "i", "l">>

\* spells 'This image shows clear AI-generated artifacts in the hands.',
ProseLines == {<<"T", "h", "i", "s", " ", "i", "m", "a", "g", "e", " ", "s", "h", "o", "w", "s", " ", "c", "l", "e", "a", "r", " ", "A", "I", "-", "g", "e", "n", "e", "r", "a", "t", "e", "d", " ", "a", "r", "t", "i", "f", "a", "c", "t", "s", " ", "i", "n", " ", "t", "h", "e", " ", "h", "a", "n", "d", "s", ".">>,
               \* spells 'The photo looks authentic and natural',
               <<"T", "h", "e", " ", "p", "h", "o", "t", "o", " ", "l", "o", "o", "k", "s", " ", "a", "u", "t", "h", "e", "n", "t", "i", "c", " ", "a", "n", "d", " ", "n", "a", "t", "u", "r", "a", "l">>,
               \* spells '- Looks FAKE to me overall',
               <<"-", " ", "L", "o", "o", "k", "s", " ", "F", "A", "K", "E", " ", "t", "o", " ", "m", "e", " ", "o", "v", "e", "r", "a", "l", "l">>,
               \* spells '  * indented bullet point',
               <<" ", " ", "*", " ", "i", "n", "d", "e", "n", "t", "e", "d", " ", "b", "u", "l", "l", "e", "t", " ", "p", "o", "i", "n", "t">>,
               \* spells '1) Artificial lighting',
               <<"1", ")", " ", "A", "r", "t", "i", "f", "i", "c", "i", "a", "l", " ", "l", "i", "g", "h", "t", "i", "n", "g">>,
               <<"1", "2", ".", "3", "4", ".", "5", "6", ".", "7", "8", ".", "9", "0">>,
               <<"t", "o", "o", " ", "s", "h", "o", "r", "t">>,
               <<" ", " ", " ">>}

RECURSIVE Join(_)
Join(lines) ==
    IF lines = <<>> THEN <<>>
    ELSE IF Len(lines) = 1 THEN lines[1]
    ELSE lines[1] \o <<"\n">> \o Join(Tail(lines))

RECURSIVE SeqsUpTo(_, _)
SeqsUpTo(S, n) ==
    IF n = 0 THEN {<<>>}
    ELSE LET shorter == SeqsUpTo(S, n - 1)
         IN  shorter \cup {Append(q, x) : q \in shorter, x \in S}

ProseTexts ==
    {Join([i \in 1..k |-> PadLine(i)] \o free) : k \in 0..MaxPad, free \in SeqsUpTo(ProseLines, MaxFree)}

ReplyTexts == Docs \cup OtherTexts \cup ProseTexts

\* The fences a reply can come wrapped in.
Fences == {"none", "json", "JSON", "bare", "inline"}

Wrap(fence, text) ==
    IF fence = "json" THEN Fence \o <<"j", "s", "o", "n", "\n">> \o text \o <<"\n">> \o Fence
    ELSE IF fence = "JSON" THEN Fence \o <<"J", "S", "O", "N", "\n">> \o text \o <<"\n">> \o Fence
    ELSE IF fence = "bare" THEN Fence \o <<"\n">> \o text \o <<"\n">> \o Fence
    ELSE IF fence = "inline" THEN Fence \o <<"j", "s", "o", "n">> \o text \o Fence
    ELSE text

\* The replies the server's turns draw from: a sample of the above.
\* spells DocText('true', '150', '["a","b","c","d"]'),
SampleTexts == {DocText(<<"t", "r", "u", "e">>, <<"1", "5", "0">>, <<"[", "\"", "a", "\"", ",", "\"", "b", "\"", ",", "\"", "c", "\"", ",", "\"", "d", "\"", "]">>),
                DocText(<<"f", "a", "l", "s", "e">>, <<"-", "0", ".", "5">>, <<"[", "]">>),
                \* spells Wrap("json", DocText('false', '70.5', '["a","b","c","d"]')),
                Wrap("json", DocText(<<"f", "a", "l", "s", "e">>, <<"7", "0", ".", "5">>, <<"[", "\"", "a", "\"", ",", "\"", "b", "\"", ",", "\"", "c", "\"", ",", "\"", "d", "\"", "]">>)),
                \* spells DocText('true', '"high"', '["a","b","c","d"]'),
                DocText(<<"t", "r", "u", "e">>, <<"\"", "h", "i", "g", "h", "\"">>, <<"[", "\"", "a", "\"", ",", "\"", "b", "\"", ",", "\"", "c", "\"", ",", "\"", "d", "\"", "]">>),
                \* spells 'This image shows clear AI-generated artifacts in the hands.',
                <<"T", "h", "i", "s", " ", "i", "m", "a", "g", "e", " ", "s", "h", "o", "w", "s", " ", "c", "l", "e", "a", "r", " ", "A", "I", "-", "g", "e", "n", "e", "r", "a", "t", "e", "d", " ", "a", "r", "t", "i", "f", "a", "c", "t", "s", " ", "i", "n", " ", "t", "h", "e", " ", "h", "a", "n", "d", "s", ".">>,
                \* spells '- Looks FAKE to me overall\ntoo short',
                <<"-", " ", "L", "o", "o", "k", "s", " ", "F", "A", "K", "E", " ", "t", "o", " ", "m", "e", " ", "o", "v", "e", "r", "a", "l", "l", "\n", "t", "o", "o", " ", "s", "h", "o", "r", "t">>,
                <<>>}

\* What response.json() can yield: the documented envelope of either API
\* around a reply text, and envelopes without the text field.
Envelopes ==
    {ClaudeEnvelope(JStr(t)) : t \in SampleTexts}
    \cup {DeepSeekEnvelope(JStr(t)) : t \in SampleTexts}
    \cup {JNull,
          JObj(<<>>),
          JObj(<<[k |-> KeyContent, v |-> JArr(<<>>)]>>),
          JObj(<<[k |-> KeyContent, v |-> JArr(<<JNull>>)]>>),
          ClaudeEnvelope(JNum(7, 0)),
          DeepSeekEnvelope(JArr(<<>>))}


\* Lines 203-256 / 337-389 for the envelope data: the text is extracted, or
\* the extraction throws, and the text is parsed.
JsonOutcome(provider, data) ==
    LET got == ExtractText(provider, data)
    IN  IF got.threw
        THEN [threw |-> TRUE, message |-> got.message, reply |-> NoReply, result |-> <<>>]
        ELSE [threw |-> FALSE, message |-> <<>>, reply |-> Reply(got.text),
              result |-> ParseReply(provider, got.text)]

\* The outcome for each provider and each envelope.
JsonOutcomes ==
    {[provider |-> p, data |-> d, outcome |-> JsonOutcome(p, d)] : p \in Providers, d \in Envelopes}

\* Lines 203-256 / 337-389 and the handler's res.json(result): the reply's
\* JSON is in; its text is extracted and parsed.
JsonResolves(r, data) ==
    /\ pc[r] = "json"
    /\ sent.status = 0
    /\ \E o \in {x \in JsonOutcomes : x.provider = Provider(r) /\ x.data = data} :
           IF o.outcome.threw
           THEN RespondFallback(r, o.outcome.message)
           ELSE /\ sent' = [Response(r, 200, o.outcome.result)
                               EXCEPT !.reply = o.outcome.reply]
                /\ pc' = [pc EXCEPT ![r] = "idle"]
                /\ req' = [req EXCEPT ![r] = NoRequest]
    /\ UNCHANGED <<CLAUDE_KEY, DEEPSEEK_KEY>>

(***************************************************************************)
(* The server's specification.                                             *)
(***************************************************************************)
NoOutput == [done |-> FALSE]

TextIdle ==
    /\ tProvider = "claude"
    /\ tText = <<>>
    /\ tFence = "none"
    /\ tOut = NoOutput

Init ==
    /\ CLAUDE_KEY \in KeyValues
    /\ DEEPSEEK_KEY \in KeyValues
    /\ pc = [r \in Requests |-> "idle"]
    /\ req = [r \in Requests |-> NoRequest]
    /\ sent = NoResponse
    /\ TextIdle

Next ==
    \/ \E r \in Requests, image \in Images : Receive(r, image) /\ UNCHANGED textVars
    \/ \E r \in Requests, e \in NetworkErrors : FetchRejects(r, e) /\ UNCHANGED textVars
    \/ \E r \in Requests, status \in Statuses : FetchResolves(r, status) /\ UNCHANGED textVars
    \/ \E r \in Requests, errorText \in ErrorTexts : TextResolves(r, errorText) /\ UNCHANGED textVars
    \/ \E r \in Requests, e \in BodyErrors : BodyRejects(r, e) /\ UNCHANGED textVars
    \/ \E r \in Requests, data \in Envelopes : JsonResolves(r, data) /\ UNCHANGED textVars
    \/ Flush /\ UNCHANGED textVars

Spec == Init /\ [][Next]_vars

\* The outbound call of the request in slot r settles: one of its awaits (of
\* fetch, of response.text(), of response.json()) resolves or rejects, and
\* the handler of the request moves on from where it was.  These are the
\* steps of FetchRejects, FetchResolves, TextResolves, BodyRejects and
\* JsonResolves for slot r, whatever the outcome that settles the await.
CallSettles(r) ==
    /\ pc[r] \in {"fetch", "text", "json"}
    /\ sent.status = 0
    /\ \E next \in {"text", "json", "idle"} \ {pc[r]} : pc' = [pc EXCEPT ![r] = next]

\* One image of each kind the handler tells apart: none, one that is not a
\* string (reading it throws), and a data URL.
FairImages == {JUndefined, JNum(42, 0), PngDataUrl}

\* The steps of Next for these images.
FairNext ==
    \/ \E r \in Requests, image \in FairImages : Receive(r, image) /\ UNCHANGED textVars
    \/ \E r \in Requests, e \in NetworkErrors : FetchRejects(r, e) /\ UNCHANGED textVars
    \/ \E r \in Requests, status \in Statuses : FetchResolves(r, status) /\ UNCHANGED textVars
    \/ \E r \in Requests, errorText \in ErrorTexts : TextResolves(r, errorText) /\ UNCHANGED textVars
    \/ \E r \in Requests, e \in BodyErrors : BodyRejects(r, e) /\ UNCHANGED textVars
    \/ \E r \in Requests, data \in Envelopes : JsonResolves(r, data) /\ UNCHANGED textVars
    \/ Flush /\ UNCHANGED textVars

\* The server with its scheduling: a response that was written is taken by
\* the socket, and a call that was issued runs to completion or failure,
\* however many turns of other requests come in between.
FairSpec ==
    /\ Init /\ [][FairNext]_vars
    /\ WF_vars(Flush /\ UNCHANGED textVars)
    /\ \A r \in Requests : SF_pc(CallSettles(r))

(***************************************************************************)
(* The parser applied to every reply text, as it is and wrapped in a       *)
(* fence: the specification that the properties of the parser are stated   *)
(* for.                                                                    *)
(***************************************************************************)
TextInit ==
    /\ CLAUDE_KEY = JUndefined
    /\ DEEPSEEK_KEY = JUndefined
    /\ pc = [r \in Requests |-> "idle"]
    /\ req = [r \in Requests |-> NoRequest]
    /\ sent = NoResponse
    /\ tProvider \in Providers
    /\ tText \in ReplyTexts
    /\ tFence \in Fences
    /\ tOut = NoOutput

ApplyParser ==
    /\ ~tOut.done
    /\ tOut' = [done         |-> TRUE,
                strict       |-> StrictParse(tProvider, tText),
                strictFenced |-> StrictParse(tProvider, Wrap(tFence, tText)),
                result       |-> ParseReply(tProvider, tText),
                resultFenced |-> ParseReply(tProvider, Wrap(tFence, tText))]
    /\ UNCHANGED <<tProvider, tText, tFence>>
    /\ UNCHANGED serverVars

TextNext == ApplyParser

TextSpec == TextInit /\ [][TextNext]_vars

(***************************************************************************)
(* The properties of the responses, checked under Spec.  sent is the       *)
(* response of the turn that just ended.                                   *)
(***************************************************************************)
\* The response carries a result: the handler's res.json(result).
HasResult == sent.status = 200

Tags == {"mock", "claude-api", "deepseek-api",
         "claude-api-fallback", "deepseek-api-fallback", "mock-fallback"}

\* c is an integer with lo <= c <= hi.
IntegerWithin(c, lo, hi) ==
    IsInteger(c) /\ NumLeq(Num(lo, 0), c) /\ NumLeq(c, Num(hi, 0))

\* A key of the environment is set: it has a value that is not empty.
KeySet(key) == key.t = "string" /\ Len(key.s) > 0

\* The body has no image field, or an empty one.
NoImage(image) == image.t \in {"undefined", "null"} \/ image = JStr(<<>>)

\* The provider call of the answered request failed with a transport error
\* (the handler was at the await of fetch) or with a status that is not 2xx
\* (it was at the await of the error body).
CallFailed == sent.status # 0 /\ sent.at \in {"fetch", "text"}

\* C1: every result the pipeline returns, whichever path made it (strict
\* parse, heuristic extraction, mock, mock-fallback) and whatever the provider
\* replied, has a confidence that is an integer in [0,100].
ConfidenceIsIntegerInRange ==
    HasResult => IntegerWithin(sent.body.confidence, 0, 100)

\* A strict parse of the DeepSeek reply with confidence 70.5 gave 71.
ConfidenceRoundedReached ==
    /\ HasResult
    /\ sent.body.analysisMethod = "deepseek-api"
    /\ sent.body.confidence = Num(71, 0)

\* C2: every result the pipeline returns has a summary with at least one
\* entry, also when the reply strict-parses with an empty observations array.
SummaryHasAnEntry ==
    HasResult => Len(sent.body.summary) >= 1

\* C3: the analysisMethod of every result is one of the six tags, and the
\* result has the field fallbackReason if and only if the tag is mock-fallback.
TagAndReason ==
    HasResult =>
        /\ sent.body.analysisMethod \in Tags
        /\ "fallbackReason" \in DOMAIN sent.body <=> sent.body.analysisMethod = "mock-fallback"

\* A mock-fallback result with its reason was sent.
FallbackWithReasonReached ==
    /\ HasResult
    /\ sent.body.analysisMethod = "mock-fallback"
    /\ "fallbackReason" \in DOMAIN sent.body
    /\ sent.body.fallbackReason \in NetworkErrors

\* C4: a request whose provider call was issued is answered 200 with a
\* result, whatever the provider's outcome (transport error, status that is
\* not 2xx, body without the text field, reply that is no JSON or breaks the
\* schema); a status 500 comes only from the handler's own reading of the
\* image, before any call.
ProviderFailureAnswered200 ==
    /\ sent.status # 0 /\ sent.at # "idle" =>
           /\ sent.status = 200
           /\ sent.body.analysisMethod \in Tags
           /\ sent.calls # <<>>
    /\ sent.status = 500 =>
           /\ sent.at = "idle"
           /\ sent.calls = <<>>
           /\ ReadImage(sent.image).threw

\* A Claude reply with status 2xx and no content member was answered 200.
MissingTextFieldAnswered200 ==
    /\ sent.status = 200
    /\ sent.at = "json"
    /\ sent.calls = <<"claude">>
    /\ sent.body.analysisMethod = "mock-fallback"
    /\ sent.body.fallbackReason = <<"Cannot read properties of undefined (reading 'find')">>

\* C5: the provider is chosen by the keys alone, Claude before DeepSeek before
\* mock: a call goes to Claude iff the Claude key is set, to DeepSeek iff the
\* Claude key is not set and the DeepSeek key is, and with neither key set
\* the result is tagged mock and no call is made.  (A key is set when its
\* value is not empty.)
ClaudeThenDeepSeekThenMock ==
    /\ \A r \in Requests :
           pc[r] # "idle" =>
               /\ req[r].calls = <<"claude">> <=> KeySet(CLAUDE_KEY)
               /\ req[r].calls = <<"deepseek">> <=> ~KeySet(CLAUDE_KEY) /\ KeySet(DEEPSEEK_KEY)
               /\ KeySet(CLAUDE_KEY) \/ KeySet(DEEPSEEK_KEY)
    /\ HasResult =>
           /\ sent.calls = <<"claude">> <=> KeySet(CLAUDE_KEY)
           /\ sent.calls = <<"deepseek">> <=> ~KeySet(CLAUDE_KEY) /\ KeySet(DEEPSEEK_KEY)
           /\ sent.calls = <<>> <=> ~KeySet(CLAUDE_KEY) /\ ~KeySet(DEEPSEEK_KEY)
           /\ sent.calls = <<>> => sent.body.analysisMethod = "mock"

\* With an empty Claude key and a DeepSeek key, the call went to DeepSeek.
DeepSeekChosenReached ==
    /\ HasResult
    /\ CLAUDE_KEY = JStr(<<>>)
    /\ KeySet(DEEPSEEK_KEY)
    /\ sent.calls = <<"deepseek">>
    /\ sent.body.analysisMethod = "deepseek-api"

\* C6: a request issues at most one provider call.  When the call fails, the
\* request ends with a mock-fallback result: the failed provider is not
\* called again, and with both keys set the one call was to Claude.
OneCallPerRequest ==
    /\ \A r \in Requests : Len(req[r].calls) <= 1
    /\ sent.status # 0 => Len(sent.calls) <= 1
    /\ CallFailed =>
           /\ HasResult
           /\ sent.body.analysisMethod = "mock-fallback"
           /\ Len(sent.calls) = 1
           /\ pc[sent.slot] = "idle"
           /\ KeySet(CLAUDE_KEY) => sent.calls = <<"claude">>

\* With both keys set the Claude call failed at the transport, and the
\* request ended with a mock-fallback result.
ClaudeFailedNoDeepSeekReached ==
    /\ CallFailed
    /\ sent.at = "fetch"
    /\ KeySet(CLAUDE_KEY)
    /\ KeySet(DEEPSEEK_KEY)
    /\ sent.calls = <<"claude">>
    /\ sent.body.analysisMethod = "mock-fallback"

\* The messages of the errors a failed call can end with: the transport
\* error's, or that of the error made from the status and the error body (or
\* of the failure to read that body).
FailureMessages ==
    IF sent.at = "fetch" THEN NetworkErrors
    ELSE {<<ApiName(sent.calls[1]), " API error: ", ToString(sent.apiStatus), " - ", errorText>> :
              errorText \in ErrorTexts} \cup BodyErrors

\* C7: when the provider call fails with a transport error or a status that
\* is not 2xx, the result is tagged mock-fallback, its fallbackReason is the
\* message of the error, its confidence is in [75,95] and its summary is the
\* fixed mock set that goes with its isOriginal.
FailureGivesMockFallback ==
    CallFailed =>
        /\ HasResult
        /\ sent.body.analysisMethod = "mock-fallback"
        /\ sent.at = "text" => sent.apiStatus \notin 200..299
        /\ sent.body.fallbackReason \in FailureMessages
        /\ IntegerWithin(sent.body.confidence, 75, 95)
        /\ sent.body.summary = IF sent.body.isOriginal THEN AuthenticSummary ELSE AiSummary

\* The DeepSeek call was answered 503, and the result carries that error.
StatusErrorReasonReached ==
    /\ CallFailed
    /\ sent.at = "text"
    /\ sent.body.fallbackReason =
           <<"DeepSeek", " API error: ", "503", " - ", "{\"error\":\"unavailable\"}">>
    /\ sent.body.confidence = Num(95, 0)
    /\ ~sent.body.isOriginal

\* C8: a request without an image field, or with an empty one, is answered
\* 400 with a message, and neither a provider call nor a mock result is made
\* for it.
MissingImageRejected ==
    /\ sent.status # 0 /\ NoImage(sent.image) =>
           /\ sent.status = 400
           /\ "message" \in DOMAIN sent.body
           /\ sent.at = "idle"
           /\ sent.calls = <<>>
           /\ sent.mockRuns = 0
    /\ \A r \in Requests : pc[r] # "idle" => ~NoImage(req[r].image)

\* A request with an empty image was answered 400.
EmptyImageRejectedReached ==
    /\ sent.status = 400
    /\ sent.image = JStr(<<>>)
    /\ sent.calls = <<>>
    /\ sent.mockRuns = 0

(***************************************************************************)
(* The properties of the strict parser, checked under TextSpec.            *)
(***************************************************************************)
\* The confidence member of the reply, as JSON.parse reads it.
ReplyConfidence == GetProp(JSONparse(JsonText(tText)).v, KeyConfidence)

\* n is an integer nearest to x: |x - n| <= 1/2.
Nearest(n, x) ==
    /\ 2 * n * Pow10(x.e) - Pow10(x.e) <= 2 * x.m
    /\ 2 * x.m <= 2 * n * Pow10(x.e) + Pow10(x.e)

\* n clamped to [0,100].
Clamped(n) == IF n > 100 THEN 100 ELSE IF n < 0 THEN 0 ELSE n

\* C9: on a successful strict parse the confidence of the result is the
\* reply's confidence rounded to the nearest integer and then clamped to
\* [0,100]: 150 gives 100, a negative value 0, a value in range its rounding.
RoundedThenClamped ==
    tOut.done /\ tOut.strict.ok =>
        LET x  == Num(ReplyConfidence.m, ReplyConfidence.e)
            fl == x.m \div Pow10(x.e)
        IN  \E n \in {fl, fl + 1} :
                /\ Nearest(n, x)
                /\ tOut.strict.result.confidence = Num(Clamped(n), 0)

\* The reply with confidence 150 was parsed, and the result has 100.
ClampedTo100Reached ==
    /\ tOut.done
    \* the reply '{"isOriginal":true,"confidence":150,"observations":["a","b","c","d"]}'
    /\ tText = <<"{", "\"", "i", "s", "O", "r", "i", "g", "i", "n", "a", "l", "\"", ":", "t", "r", "u", "e", ",", "\"", "c", "o", "n", "f", "i", "d", "e", "n", "c", "e", "\"", ":", "1", "5", "0", ",", "\"", "o", "b", "s", "e", "r", "v", "a", "t", "i", "o", "n", "s", "\"", ":", "[", "\"", "a", "\"", ",", "\"", "b", "\"", ",", "\"", "c", "\"", ",", "\"", "d", "\"", "]", "}">>
    /\ tOut.strict.ok
    /\ tOut.strict.result.confidence = Num(100, 0)

\* C10: for a reply that is valid JSON, the strict parser gives the same
\* outcome (the same isOriginal, confidence, summary and analysisMethod, or
\* the same failure) for the reply wrapped in a fenced code block, with the
\* json tag or without it, as for the reply itself.
FenceMakesNoDifference ==
    tOut.done /\ tFence # "none" /\ JSONparse(tText).ok =>
        tOut.strictFenced = tOut.strict

\* A reply in a fenced block with the json tag was parsed like the reply.
FencedReplyParsedReached ==
    /\ tOut.done
    /\ tFence = "json"
    \* the reply '{"isOriginal":false,"confidence":85,"observations":["a","b","c","d"]}'
    /\ tText = <<"{", "\"", "i", "s", "O", "r", "i", "g", "i", "n", "a", "l", "\"", ":", "f", "a", "l", "s", "e", ",", "\"", "c", "o", "n", "f", "i", "d", "e", "n", "c", "e", "\"", ":", "8", "5", ",", "\"", "o", "b", "s", "e", "r", "v", "a", "t", "i", "o", "n", "s", "\"", ":", "[", "\"", "a", "\"", ",", "\"", "b", "\"", ",", "\"", "c", "\"", ",", "\"", "d", "\"", "]", "}">>
    /\ tOut.strictFenced.ok
    /\ tOut.strictFenced.result =
           [isOriginal |-> FALSE, confidence |-> Num(85, 0),
            summary |-> <<JStr(<<"a">>), JStr(<<"b">>), JStr(<<"c">>), JStr(<<"d">>)>>,
            analysisMethod |-> "claude-api"]

(***************************************************************************)
(* The properties of the heuristic extraction and of the schema.           *)
(***************************************************************************)
FallbackTags == {"claude-api-fallback", "deepseek-api-fallback"}

\* The answered request got a 2xx reply, its text was read, and the strict
\* parse of that text threw.
StrictParseFailed ==
    /\ sent.at = "json"
    /\ sent.apiStatus \in 200..299
    /\ sent.reply.read
    /\ ~StrictParse(sent.calls[1], sent.reply.text).ok

\* C11: the result is the heuristic one exactly when a 2xx reply was received
\* and the strict parse of its text failed; it is then tagged
\* <provider>-api-fallback and has confidence 70.  A result with that tag
\* comes neither from a strict parse that succeeds nor from a failed call.
HeuristicIffStrictParseFailed ==
    HasResult =>
        LET failed == StrictParseFailed
        IN  /\ sent.body.analysisMethod \in FallbackTags <=> failed
            /\ failed =>
                   /\ sent.body.analysisMethod = FallbackTag(sent.calls[1])
                   /\ sent.body.confidence = Num(70, 0)
            /\ sent.reply.read /\ ~failed =>
                   sent.body.analysisMethod = ApiTag(sent.calls[1])
            /\ CallFailed => sent.body.analysisMethod \notin FallbackTags

\* Claude's reply in prose was answered with the heuristic result.
HeuristicResultReached ==
    /\ HasResult
    \* the reply 'This image shows clear AI-generated artifacts in the hands.'
    /\ sent.reply = Reply(<<"T", "h", "i", "s", " ", "i", "m", "a", "g", "e", " ", "s", "h", "o", "w", "s", " ", "c", "l", "e", "a", "r", " ", "A", "I", "-", "g", "e", "n", "e", "r", "a", "t", "e", "d", " ", "a", "r", "t", "i", "f", "a", "c", "t", "s", " ", "i", "n", " ", "t", "h", "e", " ", "h", "a", "n", "d", "s", ".">>)
    /\ sent.body.analysisMethod = "claude-api-fallback"
    /\ sent.body.confidence = Num(70, 0)
    /\ ~sent.body.isOriginal

\* The four negative-indicator keywords: 'ai-generated', 'artificial',
\* 'generated' and 'fake'.
NegativeIndicators == {<<"a", "i", "-", "g", "e", "n", "e", "r", "a", "t", "e", "d">>,
                       <<"a", "r", "t", "i", "f", "i", "c", "i", "a", "l">>,
                       <<"g", "e", "n", "e", "r", "a", "t", "e", "d">>,
                       <<"f", "a", "k", "e">>}

\* The reply text has one of the four keywords, in any letter case.
HasNegativeIndicator(text) ==
    \E kw \in NegativeIndicators : includes(toLowerCase(text), kw)

\* C12: for both providers the heuristic verdict is isOriginal = FALSE exactly
\* when the lowercased reply text contains one of 'ai-generated',
\* 'artificial', 'generated', 'fake'; a reply with none of them gives TRUE.
VerdictIffNoNegativeIndicator ==
    tOut.done /\ ~tOut.strict.ok =>
        (tOut.result.isOriginal <=> ~HasNegativeIndicator(tText))

\* The lines of the reply whose trimmed length exceeds 10, by position.
QualifyingLines(text) ==
    {i \in 1..Len(split(text, "\n")) : Len(trim(split(text, "\n")[i])) > 10}

\* The k-th qualifying line of the reply, in the order of the reply.
QualifyingLine(text, k) ==
    LET Q == QualifyingLines(text)
        i == CHOOSE j \in Q : Cardinality({h \in Q : h < j}) = k - 1
    IN  split(text, "\n")[i]

\* The content of a line without its leading bullet or numbering
\* punctuation: the line less the white space around it, the marker it then
\* starts with and the white space after the marker.
WithoutMarker(line) ==
    LET content == trim(line)
        rest    == Drop(content, SkipChars(content, 1, BulletChars) - 1)
    IN  trim(rest)

Least(a, b) == IF a <= b THEN a ELSE b

\* C13: the heuristic summary is the first up to 4 lines of the reply whose
\* trimmed length exceeds 10, in their order, each without its leading bullet
\* or numbering punctuation; when no line qualifies it is the provider's
\* default set of 4 lines.  It has between 1 and 4 entries.
SummaryIsFirstLinesStripped ==
    tOut.done /\ ~tOut.strict.ok =>
        LET summary == tOut.result.summary
            n       == Cardinality(QualifyingLines(tText))
        IN  /\ Len(summary) \in 1..4
            /\ n = 0 => summary = DefaultSummary(tProvider)
            /\ n > 0 =>
                   /\ Len(summary) = Least(n, 4)
                   /\ \A k \in 1..Len(summary) :
                          summary[k] = JStr(WithoutMarker(QualifyingLine(tText, k)))

\* The reply, less its fences and the text around its braces, parses as an
\* object with a boolean isOriginal, a numeric confidence and observations
\* that are an array of strings.
MatchesSchema(text) ==
    LET p == JSONparse(JsonText(text))
    IN  /\ p.ok
        /\ p.v.t = "object"
        /\ GetProp(p.v, KeyIsOriginal).t = "boolean"
        /\ GetProp(p.v, KeyConfidence).t = "number"
        /\ GetProp(p.v, KeyObservations).t = "array"
        /\ \A k \in 1..Len(GetProp(p.v, KeyObservations).a) :
               GetProp(p.v, KeyObservations).a[k].t = "string"

\* C14: the strict parser accepts a reply only if it parses as an object with
\* a boolean isOriginal, a numeric confidence and observations whose elements
\* are all strings; every other reply, one whose observations hold elements
\* that are not strings included, is rejected and gets the heuristic result,
\* never a <provider>-api one.
OnlySchemaRepliesAccepted ==
    tOut.done =>
        /\ tOut.strict.ok => MatchesSchema(tText)
        /\ ~MatchesSchema(tText) =>
               /\ tOut.result.analysisMethod = FallbackTag(tProvider)
               /\ tOut.result.analysisMethod # ApiTag(tProvider)

(***************************************************************************)
(* The properties of the mock analysis and of the result objects, checked  *)
(* under Spec.                                                             *)
(***************************************************************************)
\* The result of the response was made by performMockAnalysis.
MockMade == HasResult /\ sent.mockRuns = 1

\* C15: every result of performMockAnalysis has an integer confidence in
\* [75,95], and its summary is the authentic-leaning set of 4 lines when
\* isOriginal is TRUE and the AI-leaning set of 4 lines when it is FALSE.
\* Both ends of the range occur: MockHighestReached, MockLowestReached.
MockConfidenceAndSummary ==
    MockMade =>
        /\ IntegerWithin(sent.body.confidence, 75, 95)
        /\ Len(sent.body.summary) = 4
        /\ sent.body.isOriginal => sent.body.summary = AuthenticSummary
        /\ ~sent.body.isOriginal => sent.body.summary = AiSummary
        /\ AuthenticSummary # AiSummary

\* A mock result with confidence 95, the authentic-leaning one.
MockHighestReached ==
    /\ MockMade
    /\ sent.body.analysisMethod = "mock"
    /\ sent.body.confidence = Num(95, 0)
    /\ sent.body.isOriginal
    /\ sent.body.summary = AuthenticSummary

\* A mock result with confidence 75, the AI-leaning one.
MockLowestReached ==
    /\ MockMade
    /\ sent.body.analysisMethod = "mock"
    /\ sent.body.confidence = Num(75, 0)
    /\ ~sent.body.isOriginal
    /\ sent.body.summary = AiSummary

\* C16: no component changes a result after the function that constructed it
\* has returned it: the result that is sent has the fields, with the values,
\* that it had when performMockAnalysis, analyzeWithClaude's parser or
\* analyzeWithDeepSeek's parser returned it.
ResultUnchangedOnceReturned ==
    HasResult => sent.body = sent.built

\* The step is one of the handling of the request in slot r: it moves the
\* request on, or answers it.
StepOf(r) ==
    \/ pc'[r] # pc[r]
    \/ req'[r] # req[r]
    \/ sent'.status # 0 /\ sent'.slot = r

\* Nothing of the requests in the other slots is written by the step.
OthersUntouched(r) ==
    \A q \in Requests \ {r} : pc'[q] = pc[q] /\ req'[q] = req[q]

\* The response to a request that arrives in slot r and is answered in the
\* same step follows from its image and the keys: 400 exactly for an image
\* that is not truthy, and a result only when no key is set, the mock one.
AnsweredOnArrival(r) ==
    /\ sent'.at = "idle" /\ sent'.calls = <<>> /\ sent'.apiStatus = 0
    /\ sent'.status \in {400, 500, 200}
    /\ sent'.status = 400 <=> ~Truthy(sent'.image)
    /\ sent'.status = 200 =>
           /\ ~KeySet(CLAUDE_KEY) /\ ~KeySet(DEEPSEEK_KEY)
           /\ sent'.mockRuns = 1
           /\ sent'.body.analysisMethod = "mock"

\* The response to the request in flight in slot r follows from what was
\* kept for that request and from the outcome of its own call: the reply
\* text that was read, or the error.
AnsweredInFlight(r) ==
    /\ sent'.image = req[r].image
    /\ sent'.calls = req[r].calls
    /\ sent'.apiStatus = req[r].status
    /\ sent'.at = pc[r]
    /\ sent'.status = 200
    /\ pc'[r] = "idle" /\ req'[r] = NoRequest
    /\ sent'.reply.read =>
           sent'.body = ParseReply(req[r].calls[1], sent'.reply.text)
    /\ ~sent'.reply.read =>
           /\ sent'.body.analysisMethod = "mock-fallback"
           /\ sent'.mockRuns = 1
           /\ pc[r] = "text" =>
                  sent'.body.fallbackReason \in
                      {ApiErrorMessage(req[r].calls[1], req[r].status, errorText) :
                           errorText \in ErrorTexts} \cup BodyErrors

\* C17: requests in flight together do not affect each other.  Every step of
\* the handling of one request writes nothing of another request and leaves
\* the two keys as they are, and the response it sends follows from that
\* request's own image, the keys, the outcome of its own provider call and
\* its own draws, whatever state the other requests are in.
RequestsAreIndependent ==
    [][\A r \in Requests :
           StepOf(r) =>
               /\ OthersUntouched(r)
               /\ CLAUDE_KEY' = CLAUDE_KEY /\ DEEPSEEK_KEY' = DEEPSEEK_KEY
               /\ sent'.status # 0 =>
                      /\ sent'.slot = r
                      /\ IF pc[r] = "idle" THEN AnsweredOnArrival(r)
                                           ELSE AnsweredInFlight(r)]_vars

\* A request was answered with the heuristic result of its own reply while
\* another one, whose call had answered 503, was waiting for its error body.
AnsweredBesideAnotherReached ==
    /\ HasResult
    /\ sent.body.analysisMethod \in FallbackTags
    /\ sent.apiStatus = 200
    /\ \E q \in Requests \ {sent.slot} : pc[q] = "text" /\ req[q].status = 503

(***************************************************************************)
(* The property of progress, checked under FairSpec.                       *)
(***************************************************************************)
\* The step writes the response to the request in slot r.
Answers(r) == sent.status = 0 /\ sent'.status # 0 /\ sent'.slot = r

\* C18: every request receives exactly one response, with status 400, 200 or
\* 500.  A request leaves the handler only by being answered, the answer ends
\* its handling (there is no second one), a request for which a call was
\* issued is answered in the step in which an await of that call settles and
\* not before, and a request in flight is answered in the end when its call
\* settles.
ExactlyOneResponse ==
    /\ [][\A r \in Requests :
              /\ pc[r] # "idle" /\ pc'[r] = "idle" => Answers(r)
              /\ sent.status # 0 => sent' = sent \/ sent'.status = 0
              /\ Answers(r) =>
                     /\ sent'.status \in {400, 200, 500}
                     /\ pc'[r] = "idle" /\ req'[r] = NoRequest
                     /\ pc[r] = "idle" => sent'.calls = <<>>
                     /\ pc[r] # "idle" =>
                            /\ pc[r] \in {"fetch", "text", "json"}
                            /\ Len(sent'.calls) = 1
                            /\ sent'.at = pc[r]
              /\ pc[r] = "idle" /\ pc'[r] # "idle" =>
                     sent'.status = 0 /\ Len(req'[r].calls) = 1]_vars
    /\ \A r \in Requests :
           (pc[r] # "idle") ~> (sent.status # 0 /\ sent.slot = r)

\* The request whose call answered 503 got its response, a 200, when the
\* error body was in, and its handling has ended.
AnsweredAfterCallReached ==
    /\ sent.status = 200
    /\ sent.at = "text"
    /\ sent.apiStatus = 503
    /\ Len(sent.calls) = 1
    /\ pc[sent.slot] = "idle"
    /\ req[sent.slot] = NoRequest

====
